---------------------------- MODULE Spec2Model ----------------------------
(***************************************************************************)
(* QueryMatcher: the matching engine of generic_matcher.py (GenericMatcher *)
(* with its slot-extraction cascade, query generalisation, intent lookup   *)
(* and field-by-field reload) together with the file watcher of watcher.py *)
(* that drives reload from a background thread.                            *)
(*                                                                         *)
(* Strings are sequences of one-character strings.  The encoder and the    *)
(* similarity scores it induces are opaque: every score is an input drawn  *)
(* from Scores, in units where both configured thresholds are 0.           *)
(***************************************************************************)
EXTENDS Integers, Sequences, FiniteSets, TLC

(***************************************************************************)
(* Bounds of the model                                                     *)
(***************************************************************************)
MaxLen == 4        \* longest utterance enumerated by SpecSlot and SpecGen
MaxEdits == 1      \* file modifications the environment performs
MaxCalls == 1      \* match calls the worker thread performs
MaxClauses == 2    \* clauses of a request in SpecMulti
MaxSignals == 2    \* file modifications in SpecReload and SpecLive
MaxPieces == 4     \* words and separators of an utterance in SpecSplit

(***************************************************************************)
(* Program constants                                                       *)
(***************************************************************************)
INTENT_THRESHOLD == 0
DESC_SLOT_THRESHOLD == 0

Char == {"a", "A", "m", "1", "-", " "}
Scores == {-1, 0, 1}
NegInf == -9       \* faiss's score for an empty index (-3.4e38)

Strings(n) == UNION {[1..k -> Char] : k \in 0..n}

(***************************************************************************)
(* Character classes of Python's re with re.IGNORECASE, and str.lower()    *)
(***************************************************************************)
IsLetter(c) ==
    c \in {"a", "b", "c", "d", "e", "f", "g", "h", "i", "j", "k", "l", "m", "n",
           "o", "p", "q", "r", "s", "t", "u", "v", "w", "x", "y", "z",
           "A", "B", "M", "I", "T", "E"}
IsDigit(c) == c = "1"
IsWord(c) == IsLetter(c) \/ IsDigit(c)

LowerChar(c) ==
    CASE c = "A" -> "a"
      [] c = "B" -> "b"
      [] c = "M" -> "m"
      [] c = "I" -> "i"
      [] c = "T" -> "t"
      [] c = "E" -> "e"
      [] OTHER -> c

Lower(s) == [i \in 1..Len(s) |-> LowerChar(s[i])]

\* Python's  needle in hay  for strings
Contains(hay, needle) ==
    \E i \in 0..(Len(hay) - Len(needle)) :
        SubSeq(hay, i + 1, i + Len(needle)) = needle

\* str.strip(): drop leading and trailing whitespace
RECURSIVE LStrip(_)
LStrip(s) == IF s # <<>> /\ Head(s) = " " THEN LStrip(Tail(s)) ELSE s
RECURSIVE RStrip(_)
RStrip(s) ==
    IF s # <<>> /\ s[Len(s)] = " " THEN RStrip(SubSeq(s, 1, Len(s) - 1)) ELSE s
Strip(s) == RStrip(LStrip(s))

(***************************************************************************)
(* PatternMatcher: re.findall(r'\b[A-Z]{2,}-\d+\b', q, re.IGNORECASE) and  *)
(* re.findall(r'\b[A-Z]{2,}\d+\b', q, re.IGNORECASE).  A match starts at a *)
(* word boundary, takes the whole run of letters (two or more), the hyphen *)
(* when the tag has one, the whole run of digits (one or more), and ends   *)
(* at a word boundary.  RunEnd is the last index of the run of characters  *)
(* of one class that starts at i.                                          *)
(***************************************************************************)
RECURSIVE LetterRunEnd(_, _)
LetterRunEnd(s, i) ==
    IF i < Len(s) /\ IsLetter(s[i + 1]) THEN LetterRunEnd(s, i + 1) ELSE i
RECURSIVE DigitRunEnd(_, _)
DigitRunEnd(s, i) ==
    IF i < Len(s) /\ IsDigit(s[i + 1]) THEN DigitRunEnd(s, i + 1) ELSE i

\* the end index of the match of the tag's regex starting at i, or 0
MatchEndAt(s, i, hyphen) ==
    IF ~IsLetter(s[i]) \/ (i > 1 /\ IsWord(s[i - 1])) THEN 0
    ELSE LET j == LetterRunEnd(s, i)
             p == IF hyphen THEN j + 2 ELSE j + 1
         IN  IF j - i + 1 < 2 THEN 0
             ELSE IF hyphen /\ (j + 1 > Len(s) \/ s[j + 1] # "-") THEN 0
             ELSE IF p > Len(s) \/ ~IsDigit(s[p]) THEN 0
             ELSE LET k == DigitRunEnd(s, p)
                  IN  IF k < Len(s) /\ IsWord(s[k + 1]) THEN 0 ELSE k

MatchStarts(s, hyphen) == {i \in 1..Len(s) : MatchEndAt(s, i, hyphen) # 0}

\* matches[0] of re.findall, or <<>> when there is no match ("matches" falsy)
FirstMatch(s, hyphen) ==
    IF MatchStarts(s, hyphen) = {} THEN <<>>
    ELSE LET i == CHOOSE x \in MatchStarts(s, hyphen) :
                      \A y \in MatchStarts(s, hyphen) : x <= y
         IN  SubSeq(s, i, MatchEndAt(s, i, hyphen))

\* the tags extract_slot recognises; any other tag of the schema is skipped
PatternHit(tag, q) ==
    CASE tag = "CODE-NUMBER" -> FirstMatch(q, TRUE)
      [] tag = "LETTERS-NUMBERS" -> FirstMatch(q, FALSE)
      [] OTHER -> <<>>

(***************************************************************************)
(* The persisted definitions.  SchemaStore(i) is what json.load gives for  *)
(* schema file content i, TemplateStore(i) what it gives for template file *)
(* content i; content 0 is an unreadable or malformed file.  Table is the  *)
(* SQLite table: the distinct non-null values of each column in row order. *)
(***************************************************************************)
Malformed == 0

SchemaStore(i) ==
    CASE i = 1 ->
           [code_columns |-> <<"sku">>, id_columns |-> <<>>,
            categorical_columns |-> <<"color">>, text_columns |-> <<"title">>,
            patterns |-> [c \in {"sku"} |-> <<"CODE-NUMBER">>]]
      [] i = 2 ->
           [code_columns |-> <<"ref", "sku">>, id_columns |-> <<"pid">>,
            categorical_columns |-> <<"size">>, text_columns |-> <<"note">>,
            patterns |-> [c \in {"ref", "sku", "pid"} |->
                           CASE c = "ref" -> <<"NUMBERS-ONLY">>
                             [] c = "sku" -> <<"CODE-NUMBER">>
                             [] OTHER -> <<"LETTERS-NUMBERS">>]]
      [] i = 3 ->
           [code_columns |-> <<>>, id_columns |-> <<"pid">>,
            categorical_columns |-> <<"color", "size">>,
            text_columns |-> <<"descr", "title">>,
            patterns |-> [c \in {"pid"} |-> <<"LETTERS-NUMBERS">>]]
      [] OTHER ->
           [code_columns |-> <<"sku">>, id_columns |-> <<>>,
            categorical_columns |-> <<"size", "tag", "color">>,
            text_columns |-> <<"note", "descr">>,
            patterns |-> [c \in {"sku"} |-> <<"CODE-NUMBER">>]]

Table ==
    [c \in {"sku", "ref", "pid", "color", "size", "tag", "descr", "title", "note"} |->
       CASE c = "sku" -> << <<"A", "A", "-", "1">> >>
         [] c = "ref" -> << <<"1">> >>
         [] c = "pid" -> << <<"A", "m", "1">> >>
         [] c = "color" -> << <<"A", "m">>, <<"m">>, <<"A", "M">> >>
         [] c = "size" -> << <<"a">> >>
         [] c = "tag" -> << <<>> >>
         [] c = "descr" -> << <<"a", " ", "m">>, <<"m", "m">> >>
         [] c = "title" -> << <<"a", "m">> >>
         [] OTHER -> <<>>]

\* a template entry: the template text and the SQL skeleton, as token lists.
\* templates.json is a file anyone may edit: the skeleton of "stock" names the
\* column placeholder twice
Entry(k) ==
    [template |-> <<"t", k, " ", "{ITEM}">>,
     sql |-> <<"SELECT ", k, " FROM t WHERE ", "{COL}", " = ", "?">> \o
             (IF k = "stock" THEN <<" ORDER BY ", "{COL}">> ELSE <<>>)]

TemplateStore(i) ==
    CASE i = 1 -> <<Entry("price"), Entry("stock")>>
      [] OTHER -> <<Entry("stock")>>

\* _load_templates: the two parallel lists
TemplatesOf(i) == [k \in 1..Len(TemplateStore(i)) |-> TemplateStore(i)[k].template]
SqlTemplatesOf(i) == [k \in 1..Len(TemplateStore(i)) |-> TemplateStore(i)[k].sql]

(***************************************************************************)
(* _load_categorical_values: {str(v).lower(): str(v) for v in rows}.  A    *)
(* dict keeps the position of a key's first insertion and the value of its *)
(* last one; it is modelled as the list of its (key, value) items.         *)
(***************************************************************************)
KeyIndex(d, k) ==
    IF \E i \in 1..Len(d) : d[i][1] = k
    THEN CHOOSE i \in 1..Len(d) : d[i][1] = k
    ELSE 0

DictPut(d, k, v) ==
    IF KeyIndex(d, k) = 0 THEN Append(d, <<k, v>>)
    ELSE [d EXCEPT ![KeyIndex(d, k)] = <<k, v>>]

RECURSIVE DictOfRows(_, _)
DictOfRows(rows, d) ==
    IF rows = <<>> THEN d
    ELSE DictOfRows(Tail(rows), DictPut(d, Lower(Head(rows)), Head(rows)))

CategoricalValues(c) == DictOfRows(Table[c], <<>>)

\* the columns _load_categorical_values walks, in order
CachedColumns(sch) == sch.categorical_columns \o sch.code_columns \o sch.id_columns

(***************************************************************************)
(* extract_slot.  A slot is None, a string or a list of (value, score)     *)
(* pairs.  Each loop of the cascade is an operator over the matcher fields *)
(* it reads: sch the schema, cch the categorical cache (column -> dict),   *)
(* dsc the description index (column -> values).  A scan                   *)
(* also reports the columns it looked up in the cache.                     *)
(***************************************************************************)
NoneSlot == [kind |-> "none", s |-> <<>>, cands |-> <<>>]
StrSlot(s) == [kind |-> "str", s |-> s, cands |-> <<>>]
ListSlot(l) == [kind |-> "list", s |-> <<>>, cands |-> l]

\* the test  slot is None  in place of  not slot
FalsyNoneOnly(slot) == slot.kind = "none"

\* Python truthiness:  not slot
Falsy(slot) ==
    \/ slot.kind = "none"
    \/ slot.kind = "str" /\ slot.s = <<>>
    \/ slot.kind = "list" /\ slot.cands = <<>>

NoHit(read) ==
    [hit |-> FALSE, slot |-> NoneSlot, col |-> "None", is_desc |-> FALSE,
     how |-> "none", read |-> read]
Hit(slot, col, how, read) ==
    [hit |-> TRUE, slot |-> slot, col |-> col, is_desc |-> how = "semantic",
     how |-> how, read |-> read]

\* for pattern in patterns: the first recognised tag with a match
RECURSIVE PatternScan(_, _)
PatternScan(tags, q) ==
    IF tags = <<>> THEN <<>>
    ELSE IF PatternHit(Head(tags), q) # <<>> THEN PatternHit(Head(tags), q)
    ELSE PatternScan(Tail(tags), q)

\* for value_lower, original_value in dict.items(): if value_lower in query_lower
DictHits(d, ql) == {i \in 1..Len(d) : Contains(ql, d[i][1])}
\* the lookup that would return the dict's key, the lower-cased text, in
\* place of the value stored under it
DictFirstKey(d, ql) ==
    d[CHOOSE i \in DictHits(d, ql) : \A j \in DictHits(d, ql) : i <= j][1]

DictFirst(d, ql) ==
    d[CHOOSE i \in DictHits(d, ql) : \A j \in DictHits(d, ql) : i <= j][2]

\* lines 116-134: per code/id column, its patterns and then its cached values
RECURSIVE CodeIdScanFrom(_, _, _, _, _)
CodeIdScanFrom(q, sch, cch, cols, read) ==
    IF cols = <<>> THEN NoHit(read)
    ELSE LET c == Head(cols)
             p == PatternScan(sch.patterns[c], q)
         IN  IF p # <<>> THEN Hit(StrSlot(p), c, "pattern", read)
             ELSE IF c \notin DOMAIN cch
                  THEN CodeIdScanFrom(q, sch, cch, Tail(cols), read \cup {c})
             ELSE IF DictHits(cch[c], Lower(q)) # {}
                  THEN Hit(StrSlot(DictFirst(cch[c], Lower(q))), c, "exact",
                           read \cup {c})
             ELSE CodeIdScanFrom(q, sch, cch, Tail(cols), read \cup {c})

CodeIdScan(q, sch, cch) ==
    CodeIdScanFrom(q, sch, cch, sch.code_columns \o sch.id_columns, {})

\* lines 137-141: the cached values of each categorical column
RECURSIVE CategoricalScanFrom(_, _, _, _)
CategoricalScanFrom(q, cch, cols, read) ==
    IF cols = <<>> THEN NoHit(read)
    ELSE LET c == Head(cols)
         IN  IF c \notin DOMAIN cch
             THEN CategoricalScanFrom(q, cch, Tail(cols), read \cup {c})
             ELSE IF DictHits(cch[c], Lower(q)) # {}
                  THEN Hit(StrSlot(DictFirst(cch[c], Lower(q))), c, "exact",
                           read \cup {c})
             ELSE CategoricalScanFrom(q, cch, Tail(cols), read \cup {c})

CategoricalScan(q, sch, cch) ==
    CategoricalScanFrom(q, cch, sch.categorical_columns, {})

(***************************************************************************)
(* lines 144-165.  near[c] = [idx, score] is the argmax of the cosine      *)
(* similarities of the utterance against column c's description index and  *)
(* its value: the encoder's answer, an input.  best is the running         *)
(* (best_match, best_score, best_col).                                     *)
(***************************************************************************)
\* the loop with  max_score >= best_score : on equal scores the later column
RECURSIVE SemanticScanFromLast(_, _, _, _)
SemanticScanFromLast(dsc, near, cols, best) ==
    IF cols = <<>> THEN best
    ELSE LET c == Head(cols)
         IN  IF c \in DOMAIN dsc /\ near[c].score >= best.score
             THEN SemanticScanFromLast(dsc, near, Tail(cols),
                      [match |-> << <<dsc[c][near[c].idx], near[c].score>> >>,
                       score |-> near[c].score, col |-> c])
             ELSE SemanticScanFromLast(dsc, near, Tail(cols), best)

RECURSIVE SemanticScanFrom(_, _, _, _)
SemanticScanFrom(dsc, near, cols, best) ==
    IF cols = <<>> THEN best
    ELSE LET c == Head(cols)
         IN  IF c \in DOMAIN dsc /\ near[c].score > best.score
             THEN SemanticScanFrom(dsc, near, Tail(cols),
                      [match |-> << <<dsc[c][near[c].idx], near[c].score>> >>,
                       score |-> near[c].score, col |-> c])
             ELSE SemanticScanFrom(dsc, near, Tail(cols), best)

SemanticScan(sch, dsc, near) ==
    LET best == SemanticScanFrom(dsc, near, sch.text_columns,
                    [match |-> <<>>, score |-> DESC_SLOT_THRESHOLD, col |-> "None"])
    IN  IF best.match # <<>>
        THEN Hit(ListSlot(best.match), best.col, "semantic", {})
        ELSE NoHit({})

\* the answers the encoder can give for the text columns that have an index
NearOf(dsc, c) == {[idx |-> i, score |-> x] : i \in 1..Len(dsc[c]), x \in Scores}
NearChoices(sch, dsc) ==
    LET cols == {sch.text_columns[i] : i \in 1..Len(sch.text_columns)} \cap DOMAIN dsc
    IN  {f \in [cols -> UNION {NearOf(dsc, c) : c \in cols}] :
            \A c \in cols : f[c] \in NearOf(dsc, c)}

(***************************************************************************)
(* Generalisation, lines 182-184:                                          *)
(*   gen_q = re.sub(re.escape(slot_val), '{ITEM}', user_query, IGNORECASE) *)
(*   clean_q = gen_q.replace('{ITEM}', '').strip().lower()                 *)
(* SubTokens is re.sub's scan: left to right, at each position a           *)
(* case-insensitive match of the literal is replaced and skipped, any      *)
(* other character is copied.  The result is a list of items, a copied     *)
(* character or the inserted token PH; an empty literal matches at every   *)
(* position.  Flatten gives the Python string.                             *)
(***************************************************************************)
PH == "{ITEM}"
PHChars == <<"{", "I", "T", "E", "M", "}">>

RECURSIVE SubTokensFrom(_, _, _, _)
SubTokensFrom(u, v, i, count) ==
    IF i > Len(u) THEN IF v = <<>> /\ count # 0 THEN <<PH>> ELSE <<>>
    ELSE IF v = <<>> /\ count # 0
         THEN <<PH, u[i]>> \o SubTokensFrom(u, v, i + 1, count - 1)
    ELSE IF /\ v # <<>>
            /\ count # 0
            /\ i + Len(v) - 1 <= Len(u)
            /\ Lower(SubSeq(u, i, i + Len(v) - 1)) = Lower(v)
         THEN <<PH>> \o SubTokensFrom(u, v, i + Len(v), count - 1)
    ELSE <<u[i]>> \o SubTokensFrom(u, v, i + 1, count)

\* re.sub(..., count=1): only the first occurrence
SubTokensFirstOnly(u, v) == SubTokensFrom(u, v, 1, 1)

\* re.sub with no count: every occurrence (count -1 never reaches 0)
SubTokens(u, v) == SubTokensFrom(u, v, 1, -1)

RECURSIVE Flatten(_)
Flatten(items) ==
    IF items = <<>> THEN <<>>
    ELSE (IF Head(items) = PH THEN PHChars ELSE <<Head(items)>>) \o Flatten(Tail(items))

\* the positions, in Flatten(items), at which an inserted token starts
RECURSIVE TokenStarts(_, _)
TokenStarts(items, at) ==
    IF items = <<>> THEN {}
    ELSE IF Head(items) = PH
         THEN {at} \cup TokenStarts(Tail(items), at + Len(PHChars))
    ELSE TokenStarts(Tail(items), at + 1)

\* str.replace(pat, ''): drop every non-overlapping occurrence, left to right
RECURSIVE RemoveAll(_, _)
RemoveAll(s, pat) ==
    IF s = <<>> THEN <<>>
    ELSE IF Len(pat) <= Len(s) /\ SubSeq(s, 1, Len(pat)) = pat
         THEN RemoveAll(SubSeq(s, Len(pat) + 1, Len(s)), pat)
    ELSE <<Head(s)>> \o RemoveAll(Tail(s), pat)

CleanQuery(gen_q) == Lower(Strip(RemoveAll(gen_q, PHChars)))

\* str.replace("{COL}", col, 1): only the first occurrence
BindFirstColumn(sql, col) ==
    [k \in 1..Len(sql) |->
        IF sql[k] = "{COL}" /\ \A j \in 1..(k - 1) : sql[j] # "{COL}"
        THEN col ELSE sql[k]]

\* sql_templates[idx].replace("{COL}", col), on the skeleton's tokens
BindColumn(sql, col) == [k \in 1..Len(sql) |-> IF sql[k] = "{COL}" THEN col ELSE sql[k]]

\* Python's list[idx]: idx in -len..len-1, anything else raises IndexError
InRange(list, idx) == -Len(list) <= idx /\ idx < Len(list)
Item(list, idx) == IF idx >= 0 THEN list[idx + 1] ELSE list[Len(list) + idx + 1]

(***************************************************************************)
(* State                                                                   *)
(***************************************************************************)
VARIABLES
    schemaFile,      \* content of schema.json (0: unreadable or malformed)
    templateFile,    \* content of templates.json (0: unreadable or malformed)
    edits,           \* file modifications performed so far
    events,          \* the observer's queue of modification events (paths)
    \* the fields of the GenericMatcher singleton
    schema,          \* self.schema: the schema content it was loaded from
    templates,       \* self.templates: the template content it was loaded from
    sql_templates,   \* self.sql_templates: likewise
    intent_idx,      \* self.intent_idx: [id, ntotal], built from templates id
    desc,            \* self.desc_embeddings / self.desc_values: column -> values
    cache,           \* self._categorical_cache: column -> dict
    \* the observer thread, in ReloadHandler.on_modified / GenericMatcher.reload
    rpc,             \* where the thread is
    ri,              \* position in the column loop of the running build step
    loaded,          \* the tuple _load_templates returned, not yet all stored
    rgen,            \* number of reloads started
    pre,             \* the fields as they were when the running reload began
    rstatus,         \* how the last reload ended, what its caller saw, and
                     \* the number of reloads that have returned
    \* the worker thread, in GenericMatcher.match_with_sbert
    mpc,             \* where the thread is
    call,            \* the locals of the call
    calls,           \* calls started so far
    missLog,         \* the redis list config.MISS_LOG_LIST
    \* a request to POST /query, in app.query_multi
    userInput,       \* data.get('userInput', '')
    parts,           \* the clauses of the request
    part_i,          \* position of the loop over parts
    all_responses,   \* the entries collected so far
    any_hit,         \* the flag of the same name
    matched,         \* what match_with_sbert gave for each clause so far
    http             \* the request's status and, if it failed, the exception

vars == <<schemaFile, templateFile, edits, events, schema, templates, sql_templates,
          intent_idx, desc, cache, rpc, ri, loaded, rgen, pre, rstatus, mpc, call,
          calls, missLog, userInput, parts, part_i, all_responses, any_hit,
          matched, http>>

fileVars == <<schemaFile, templateFile, edits, events>>
fieldVars == <<schema, templates, sql_templates, intent_idx, desc, cache>>
reloadVars == <<rpc, ri, loaded, rgen, pre, rstatus>>
matchVars == <<mpc, call, calls, missLog>>
reqVars == <<userInput, parts, part_i, all_responses, any_hit, matched, http>>

\* the matcher's fields, as one value
Fields ==
    [schema |-> schema, templates |-> templates, sql_templates |-> sql_templates,
     intent_idx |-> intent_idx, desc |-> desc, cache |-> cache]

SeqRange(s) == {s[i] : i \in 1..Len(s)}

\* _init_description_embeddings: the text columns that have values
DescValues(sch) ==
    [c \in {x \in SeqRange(sch.text_columns) : Table[x] # <<>>} |-> Table[c]]

\* GenericMatcher.__init__ on schema content sid and template content tid
Constructed(sid, tid) ==
    [schema |-> sid,
     templates |-> tid,
     sql_templates |-> tid,
     intent_idx |-> [id |-> tid, ntotal |-> Len(TemplateStore(tid))],
     desc |-> DescValues(SchemaStore(sid)),
     cache |-> [c \in SeqRange(CachedColumns(SchemaStore(sid))) |->
                  CategoricalValues(c)]]

\* a Python float, as a value that can stand where a slot can
Float(x) == [kind |-> "float", x |-> x]

\* the locals of match_with_sbert before the call has computed anything
NoResult ==
    [template |-> <<>>, sql |-> <<>>, slot |-> NoneSlot, score |-> Float(NegInf),
     column |-> "None", is_description_match |-> FALSE]

NoCall ==
    [query |-> <<>>, slot |-> NoneSlot, col |-> "None", is_desc |-> FALSE,
     how |-> "none", slot_val |-> <<>>, gen_q |-> <<>>, ph_at |-> {},
     clean_q |-> <<>>, intent_score |-> NegInf, idx |-> -1, searched |-> 0,
     sql_query |-> <<>>, result |-> NoResult, outcome |-> "running",
     error |-> "none", obs |-> {}, log0 |-> 0, sink_raised |-> FALSE,
     near |-> <<>>]

InitWith(sid, tid, pc, c, n) ==
    /\ schemaFile = sid
    /\ templateFile = tid
    /\ edits = 0
    /\ events = <<>>
    /\ schema = Constructed(sid, tid).schema
    /\ templates = Constructed(sid, tid).templates
    /\ sql_templates = Constructed(sid, tid).sql_templates
    /\ intent_idx = Constructed(sid, tid).intent_idx
    /\ desc = Constructed(sid, tid).desc
    /\ cache = Constructed(sid, tid).cache
    /\ rpc = "idle"
    /\ ri = 0
    /\ loaded = 0
    /\ rgen = 0
    /\ pre = Constructed(sid, tid)
    /\ rstatus = [ended |-> "none", caller |-> "none", cause |-> "none", done |-> 0]
    /\ mpc = pc
    /\ call = c
    /\ calls = n
    /\ missLog = <<>>

\* no request to /query is in progress
NoRequest ==
    /\ userInput = <<>>
    /\ parts = <<>>
    /\ part_i = 0
    /\ all_responses = <<>>
    /\ any_hit = FALSE
    /\ matched = <<>>
    /\ http = [status |-> "none", error |-> "none"]

\* app.py: matcher = GenericMatcher(); start_watcher(matcher.reload)
Init == InitWith(1, 1, "idle", NoCall, 0) /\ NoRequest

(***************************************************************************)
(* The worker thread: match_with_sbert(user_query).  The call is cut where *)
(* it reads a field of the shared matcher or talks to redis or the         *)
(* encoder; between two such points the observer thread may run.           *)
(***************************************************************************)
Queries == { <<"m">>, <<" ">> }

\* what a call has seen of the shared fields: the schema, and of a dict
\* whether it holds the column (the dict's content for a column is the
\* table's, whichever build stored it)
SawSchema == <<"schema", schema>>
SawCache(r) == {<<"cache", c, c \in DOMAIN cache>> : c \in r.read}

\* the call ends by raising
Raise(c, what) == [c EXCEPT !.outcome = "error", !.error = what]

\* what a scan found becomes the call's (slot, col, is_desc)
Found(c, r, seen) ==
    [c EXCEPT !.slot = r.slot, !.col = r.col, !.is_desc = r.is_desc,
              !.how = r.how, !.obs = @ \cup seen]

MatchStart(q) ==
    /\ mpc \in {"idle", "done"}
    /\ calls < MaxCalls
    /\ mpc' = "codes"
    /\ call' = [NoCall EXCEPT !.query = q, !.log0 = Len(missLog)]
    /\ calls' = calls + 1
    /\ UNCHANGED <<missLog, fileVars, fieldVars, reloadVars>>
    /\ UNCHANGED reqVars

\* extract_slot, lines 113-134
ExtractCodeId ==
    /\ mpc = "codes"
    /\ LET r == CodeIdScan(call.query, SchemaStore(schema), cache)
           seen == {SawSchema} \cup SawCache(r)
       IN  /\ call' = IF r.hit THEN Found(call, r, seen)
                      ELSE [call EXCEPT !.obs = @ \cup seen]
           /\ mpc' = IF r.hit THEN "slot" ELSE "cats"
    /\ UNCHANGED <<calls, missLog, fileVars, fieldVars, reloadVars>>
    /\ UNCHANGED reqVars

\* extract_slot, lines 136-141
ExtractCategorical ==
    /\ mpc = "cats"
    /\ LET r == CategoricalScan(call.query, SchemaStore(schema), cache)
           seen == {SawSchema} \cup SawCache(r)
       IN  /\ call' = IF r.hit THEN Found(call, r, seen)
                      ELSE [call EXCEPT !.obs = @ \cup seen]
           /\ mpc' = IF r.hit THEN "slot" ELSE "semantic"
    /\ UNCHANGED <<calls, missLog, fileVars, fieldVars, reloadVars>>
    /\ UNCHANGED reqVars

\* extract_slot, lines 143-165; the encoder is called once per indexed column
ExtractSemantic ==
    /\ mpc = "semantic"
    /\ LET sch == SchemaStore(schema)
           indexed == SeqRange(sch.text_columns) \cap DOMAIN desc
           seen == {SawSchema} \cup
                   {<<"desc", c, c \in DOMAIN desc>> : c \in SeqRange(sch.text_columns)}
       IN  \/ /\ indexed # {}
              /\ call' = Raise([call EXCEPT !.obs = @ \cup seen], "EncoderFailure")
              /\ mpc' = "done"
           \/ /\ \E near \in NearChoices(sch, desc) :
                    call' = [Found(call, SemanticScan(sch, desc, near), seen)
                                EXCEPT !.near = near]
              /\ mpc' = "slot"
    /\ UNCHANGED <<calls, missLog, fileVars, fieldVars, reloadVars>>
    /\ UNCHANGED reqVars

\* a miss that returns None without the rpush
RecordMissDropped(event) ==
    /\ missLog' = missLog
    /\ call' = [call EXCEPT !.outcome = "miss"]

\* redis_client.rpush(MISS_LOG_LIST, json.dumps(event)); return None.
\* rpush either appends the event or raises, and nothing catches what it raises
RecordMiss(event) ==
    \/ /\ missLog' = Append(missLog, event)
       /\ call' = [call EXCEPT !.outcome = "miss"]
    \/ /\ missLog' = missLog
       /\ call' = [Raise(call, "RedisError") EXCEPT !.sink_raised = TRUE]

\* lines 171-179
MatchCheckSlot ==
    /\ mpc = "slot"
    /\ IF Falsy(call.slot)
       THEN /\ RecordMiss([query |-> call.query, has_score |-> FALSE,
                           intent_score |-> NegInf])
            /\ mpc' = "done"
       ELSE /\ call' = [call EXCEPT !.slot_val =
                           IF call.is_desc THEN call.slot.cands[1][1] ELSE call.slot.s]
            /\ mpc' = "gen"
            /\ missLog' = missLog
    /\ UNCHANGED <<calls, fileVars, fieldVars, reloadVars>>
    /\ UNCHANGED reqVars

\* lines 181-184
MatchGeneralize ==
    /\ mpc = "gen"
    /\ LET items == SubTokens(call.query, call.slot_val)
       IN  call' = [call EXCEPT !.gen_q = Flatten(items),
                                !.ph_at = TokenStarts(items, 1),
                                !.clean_q = CleanQuery(Flatten(items))]
    /\ mpc' = "intent"
    /\ UNCHANGED <<calls, missLog, fileVars, fieldVars, reloadVars>>
    /\ UNCHANGED reqVars

\* a search that would first rebuild the intent index from self.templates
MatchIntentRebuilding ==
    /\ mpc = "intent"
    /\ intent_idx' = [id |-> templates, ntotal |-> Len(TemplateStore(templates))]
    /\ \E x \in Scores, i \in 0..(Len(TemplateStore(templates)) - 1) :
          call' = [call EXCEPT !.intent_score = x, !.idx = i,
                               !.searched = templates,
                               !.obs = @ \cup {<<"intent_idx", intent_idx'>>}]
    /\ mpc' = "gate"
    /\ UNCHANGED <<schema, templates, sql_templates, desc, cache>>
    /\ UNCHANGED <<calls, missLog, fileVars, reloadVars>>
    /\ UNCHANGED reqVars

\* lines 186-192: encode, then intent_idx.search(k=1).  An empty index
\* answers label -1 with the lowest score.
MatchIntent ==
    /\ mpc = "intent"
    /\ \/ /\ call' = Raise(call, "EncoderFailure")
          /\ mpc' = "done"
       \/ /\ \E x \in Scores, i \in 0..(intent_idx.ntotal - 1) :
                call' = [call EXCEPT !.intent_score = x, !.idx = i,
                                     !.searched = intent_idx.id,
                                     !.obs = @ \cup {<<"intent_idx", intent_idx>>}]
          /\ mpc' = "gate"
       \/ /\ intent_idx.ntotal = 0
          /\ call' = [call EXCEPT !.intent_score = NegInf, !.idx = -1,
                                  !.searched = intent_idx.id,
                                  !.obs = @ \cup {<<"intent_idx", intent_idx>>}]
          /\ mpc' = "gate"
    /\ UNCHANGED <<calls, missLog, fileVars, fieldVars, reloadVars>>
    /\ UNCHANGED reqVars

\* lines 194-198
MatchGate ==
    /\ mpc = "gate"
    /\ IF call.intent_score < INTENT_THRESHOLD
       THEN /\ RecordMiss([query |-> call.query, has_score |-> TRUE,
                           intent_score |-> call.intent_score])
            /\ mpc' = "done"
       ELSE /\ mpc' = "bind"
            /\ UNCHANGED <<call, missLog>>
    /\ UNCHANGED <<calls, fileVars, fieldVars, reloadVars>>
    /\ UNCHANGED reqVars

\* line 201
MatchBind ==
    /\ mpc = "bind"
    /\ LET list == SqlTemplatesOf(sql_templates)
           c == [call EXCEPT !.obs = @ \cup {<<"sql_templates", sql_templates>>}]
       IN  IF InRange(list, call.idx)
           THEN /\ call' = [c EXCEPT !.sql_query = BindColumn(Item(list, call.idx), call.col)]
                /\ mpc' = "build"
           ELSE /\ call' = Raise(c, "IndexError")
                /\ mpc' = "done"
    /\ UNCHANGED <<calls, missLog, fileVars, fieldVars, reloadVars>>
    /\ UNCHANGED reqVars

\* the dict of lines 203-210
ResultOf(c, template) ==
    [template |-> template, sql |-> c.sql_query, slot |-> c.slot,
     score |-> IF ~c.is_desc THEN Float(c.intent_score) ELSE c.slot,
     column |-> c.col, is_description_match |-> c.is_desc]

\* lines 203-210
MatchBuild ==
    /\ mpc = "build"
    /\ LET list == TemplatesOf(templates)
           c == [call EXCEPT !.obs = @ \cup {<<"templates", templates>>}]
       IN  IF InRange(list, call.idx)
           THEN call' = [c EXCEPT !.result = ResultOf(c, Item(list, call.idx)),
                                  !.outcome = "hit"]
           ELSE call' = Raise(c, "IndexError")
    /\ mpc' = "done"
    /\ UNCHANGED <<calls, missLog, fileVars, fieldVars, reloadVars>>
    /\ UNCHANGED reqVars

ExtractNext == ExtractCodeId \/ ExtractCategorical \/ ExtractSemantic

MatchNext ==
    \/ \E q \in Queries : MatchStart(q)
    \/ ExtractNext
    \/ MatchCheckSlot
    \/ MatchGeneralize
    \/ MatchIntent
    \/ MatchGate
    \/ MatchBind
    \/ MatchBuild

(***************************************************************************)
(* The environment edits files in the watched directory; the observer      *)
(* queues one modification event per edit.  A path is the string the event *)
(* carries as src_path, for the directory "." the observer watches.        *)
(***************************************************************************)
SchemaName == <<"s", "c", "h", "e", "m", "a", ".", "j", "s", "o", "n">>
TemplateName == <<"t", "e", "m", "p", "l", "a", "t", "e", "s", ".", "j", "s", "o", "n">>

SchemaPath == <<".", "/">> \o SchemaName
TemplatePath == <<".", "/">> \o TemplateName
OtherPath == <<".", "/", "d", "a", "t", "a", ".", "d", "b">>
\* "./schema.json.bak" and "./old_schema.json"
BackupPath == SchemaPath \o <<".", "b", "a", "k">>
OldSchemaPath == <<".", "/", "o", "l", "d", "_">> \o SchemaName

Contents == {Malformed, 1, 2}

\* a modification, as long as fewer than n have been made
FileModifiedUpTo(n) ==
    /\ edits < n
    /\ edits' = edits + 1
    /\ \/ \E c \in Contents \ {schemaFile} :
            /\ schemaFile' = c
            /\ templateFile' = templateFile
            /\ events' = Append(events, SchemaPath)
       \/ \E c \in Contents \ {templateFile} :
            /\ templateFile' = c
            /\ schemaFile' = schemaFile
            /\ events' = Append(events, TemplatePath)
       \/ /\ events' = Append(events, OtherPath)
          /\ UNCHANGED <<schemaFile, templateFile>>
    /\ UNCHANGED <<fieldVars, reloadVars, matchVars>>
    /\ UNCHANGED reqVars

FileModified == FileModifiedUpTo(MaxEdits)

(***************************************************************************)
(* The observer thread: ReloadHandler.on_modified and, inside it,          *)
(* GenericMatcher.reload.  reload stores one field, or one entry of a      *)
(* dict, at a time; each store is a step.  Any build step may raise; the   *)
(* except clause of reload catches it, prints and returns None.            *)
(***************************************************************************)
\* a build step goes on to the next one, or raises into the except clause
Goto(pc) == rpc' = pc /\ rstatus' = rstatus
Raised(what) == rpc' = "except" /\ rstatus' = [rstatus EXCEPT !.cause = what]

\* str.endswith
EndsWith(s, suffix) ==
    /\ Len(suffix) <= Len(s)
    /\ SubSeq(s, Len(s) - Len(suffix) + 1, Len(s)) = suffix

\* a test for the two files themselves in place of the test on the suffix
WatchedExactly(path) == path \in {SchemaPath, TemplatePath}

\* event.src_path.endswith(('schema.json', 'templates.json'))
Watched(path) == EndsWith(path, SchemaName) \/ EndsWith(path, TemplateName)

\* a handler that would be dispatched while a reload is still running
OnModifiedAnyTime ==
    /\ events # <<>>
    /\ events' = Tail(events)
    /\ IF Watched(Head(events))
       THEN /\ rpc' = "load_schema"
            /\ rgen' = rgen + 1
            /\ pre' = Fields
            /\ rstatus' = [ended |-> "running", caller |-> "none", cause |-> "none",
                            done |-> rstatus.done]
       ELSE UNCHANGED <<rpc, rgen, pre, rstatus>>
    /\ UNCHANGED <<ri, loaded, schemaFile, templateFile, edits, fieldVars, matchVars>>
    /\ UNCHANGED reqVars

\* watcher.py lines 10-13, up to the call of reload_callback.  The observer
\* dispatches the queued events one after another on its own thread: the
\* next handler starts when the previous one has returned.
OnModified ==
    /\ rpc = "idle"
    /\ events # <<>>
    /\ events' = Tail(events)
    /\ IF Watched(Head(events))
       THEN /\ rpc' = "load_schema"
            /\ rgen' = rgen + 1
            /\ pre' = Fields
            /\ rstatus' = [ended |-> "running", caller |-> "none", cause |-> "none",
                            done |-> rstatus.done]
       ELSE UNCHANGED <<rpc, rgen, pre, rstatus>>
    /\ UNCHANGED <<ri, loaded, schemaFile, templateFile, edits, fieldVars, matchVars>>
    /\ UNCHANGED reqVars

\* line 99: self.schema = self._load_schema()
ReloadSchema ==
    /\ rpc = "load_schema"
    /\ IF schemaFile = Malformed
       THEN Raised("ConfigurationError") /\ schema' = schema
       ELSE Goto("load_templates") /\ schema' = schemaFile
    /\ UNCHANGED <<templates, sql_templates, intent_idx, desc, cache,
                   ri, loaded, rgen, pre, fileVars, matchVars>>
    /\ UNCHANGED reqVars

\* line 100: _load_templates() and the store of the tuple's first half
ReloadTemplates ==
    /\ rpc = "load_templates"
    /\ IF templateFile = Malformed
       THEN Raised("ConfigurationError") /\ UNCHANGED <<templates, loaded>>
       ELSE /\ Goto("store_sql")
            /\ loaded' = templateFile
            /\ templates' = templateFile
    /\ UNCHANGED <<schema, sql_templates, intent_idx, desc, cache,
                   ri, rgen, pre, fileVars, matchVars>>
    /\ UNCHANGED reqVars

\* line 100: the store of the tuple's second half
ReloadStoreSql ==
    /\ rpc = "store_sql"
    /\ rpc' = "intent_new"
    /\ sql_templates' = loaded
    /\ UNCHANGED <<schema, templates, intent_idx, desc, cache,
                   ri, loaded, rgen, pre, rstatus, fileVars, matchVars>>
    /\ UNCHANGED reqVars

\* lines 51-55: encode the phrases, publish a new and still empty index
ReloadIntentNew ==
    /\ rpc = "intent_new"
    /\ \/ Raised("EncoderFailure") /\ intent_idx' = intent_idx
       \/ /\ Goto("intent_add")
          /\ intent_idx' = [id |-> templates, ntotal |-> 0]
    /\ UNCHANGED <<schema, templates, sql_templates, desc, cache,
                   ri, loaded, rgen, pre, fileVars, matchVars>>
    /\ UNCHANGED reqVars

\* line 56: add the vectors
ReloadIntentAdd ==
    /\ rpc = "intent_add"
    /\ rpc' = "desc_new"
    /\ intent_idx' = [intent_idx EXCEPT !.ntotal = Len(TemplateStore(intent_idx.id))]
    /\ UNCHANGED <<schema, templates, sql_templates, desc, cache,
                   ri, loaded, rgen, pre, rstatus, fileVars, matchVars>>
    /\ UNCHANGED reqVars

\* lines 60-63: two new empty dicts
ReloadDescNew ==
    /\ rpc = "desc_new"
    /\ rpc' = "desc_col"
    /\ ri' = 1
    /\ desc' = [c \in {} |-> <<>>]
    /\ UNCHANGED <<schema, templates, sql_templates, intent_idx, cache,
                   loaded, rgen, pre, rstatus, fileVars, matchVars>>
    /\ UNCHANGED reqVars

\* lines 65-81: one text column; the query or the encoder may raise
ReloadDescCol ==
    /\ rpc = "desc_col"
    /\ LET cols == SchemaStore(schema).text_columns
       IN  IF ri > Len(cols)
           THEN Goto("cat_col") /\ ri' = 1 /\ desc' = desc
           ELSE \/ Raised("DatabaseError") /\ UNCHANGED <<ri, desc>>
                \/ /\ Goto(rpc)
                   /\ ri' = ri + 1
                   /\ desc' = IF Table[cols[ri]] # <<>>
                              THEN (cols[ri] :> Table[cols[ri]]) @@ desc
                              ELSE desc
    /\ UNCHANGED <<schema, templates, sql_templates, intent_idx, cache,
                   loaded, rgen, pre, fileVars, matchVars>>
    /\ UNCHANGED reqVars

\* lines 85-93: one column of the categorical cache, stored into the dict
\* the constructor made; the query may raise
ReloadCatCol ==
    /\ rpc = "cat_col"
    /\ LET cols == CachedColumns(SchemaStore(schema))
       IN  IF ri > Len(cols)
           THEN Goto("complete") /\ UNCHANGED <<ri, cache>>
           ELSE \/ Raised("DatabaseError") /\ UNCHANGED <<ri, cache>>
                \/ /\ Goto(rpc)
                   /\ ri' = ri + 1
                   /\ cache' = (cols[ri] :> CategoricalValues(cols[ri])) @@ cache
    /\ UNCHANGED <<schema, templates, sql_templates, intent_idx, desc,
                   loaded, rgen, pre, fileVars, matchVars>>
    /\ UNCHANGED reqVars

\* reload's except clause swallows the exception; the call returns None
ExceptOutcome ==
    [rstatus EXCEPT !.ended = "except", !.caller = "None", !.done = @ + 1]

\* line 104, and the return to on_modified
ReloadComplete ==
    /\ rpc = "complete"
    /\ rpc' = "idle"
    /\ rstatus' = [rstatus EXCEPT !.ended = "complete", !.caller = "None",
                                  !.done = @ + 1]
    /\ UNCHANGED <<ri, loaded, rgen, pre, fieldVars, fileVars, matchVars>>
    /\ UNCHANGED reqVars

\* an except clause that would let the exception escape into the observer
\* thread, which ends with it
ReloadExceptEscapes ==
    /\ rpc = "except"
    /\ rpc' = "dead"
    /\ rstatus' = [rstatus EXCEPT !.ended = "except", !.caller = "raised"]
    /\ UNCHANGED <<ri, loaded, rgen, pre, fieldVars, fileVars, matchVars>>
    /\ UNCHANGED reqVars

\* lines 105-106, and the return to on_modified
ReloadExcept ==
    /\ rpc = "except"
    /\ rpc' = "idle"
    /\ rstatus' = ExceptOutcome
    /\ UNCHANGED <<ri, loaded, rgen, pre, fieldVars, fileVars, matchVars>>
    /\ UNCHANGED reqVars

ReloadNext ==
    \/ ReloadSchema
    \/ ReloadTemplates
    \/ ReloadStoreSql
    \/ ReloadIntentNew
    \/ ReloadIntentAdd
    \/ ReloadDescNew
    \/ ReloadDescCol
    \/ ReloadCatCol
    \/ ReloadComplete
    \/ ReloadExcept

Next == FileModified \/ OnModified \/ ReloadNext \/ MatchNext

Spec == Init /\ [][Next]_vars

(***************************************************************************)
(* SpecReload: the watcher and reload alone, with no match call, over up   *)
(* to MaxSignals file modifications.  SpecLive adds the scheduling of the  *)
(* observer thread: a handler that can run does run, and a reload that has *)
(* started goes on with its next step (each build step returns or raises). *)
(***************************************************************************)
FileModifiedOften == FileModifiedUpTo(MaxSignals)

\* a modification of another file of the directory whose name holds the name
\* of the schema file
OtherFileModified ==
    /\ edits < MaxSignals
    /\ edits' = edits + 1
    /\ \E p \in {BackupPath, OldSchemaPath} : events' = Append(events, p)
    /\ UNCHANGED <<schemaFile, templateFile, fieldVars, reloadVars, matchVars>>
    /\ UNCHANGED reqVars

ReloadOnlyNext == FileModifiedOften \/ OtherFileModified \/ OnModified \/ ReloadNext

SpecReload == Init /\ [][ReloadOnlyNext]_vars

SpecLive == SpecReload /\ WF_vars(OnModified) /\ WF_vars(ReloadNext)

(***************************************************************************)
(* SpecSlot: extract_slot as a function of the utterance.  One call, on    *)
(* every utterance of up to MaxLen characters, against a matcher that was  *)
(* constructed from one of the schemas and is never reloaded.              *)
(***************************************************************************)
SlotSchemas == {1, 2, 3, 4}

InitSlot ==
    \E sid \in SlotSchemas, q \in Strings(MaxLen) :
        InitWith(sid, 1, "codes", [NoCall EXCEPT !.query = q], 1) /\ NoRequest

SpecSlot == InitSlot /\ [][ExtractNext]_vars

(***************************************************************************)
(* SpecMatch: match_with_sbert as a function of the utterance.  One whole  *)
(* call, on every utterance of up to MaxLen characters, against a matcher  *)
(* that was constructed from one of the schemas and is never reloaded.     *)
(***************************************************************************)
MatchSteps ==
    \/ ExtractNext
    \/ MatchCheckSlot
    \/ MatchGeneralize
    \/ MatchIntent
    \/ MatchGate
    \/ MatchBind
    \/ MatchBuild

SpecMatch == InitSlot /\ [][MatchSteps]_vars

(***************************************************************************)
(* SpecGen: the generalisation step as a function of the utterance u and   *)
(* the slot text v.  u ranges over the utterances without digits, v over   *)
(* the substrings of u in their own and in lower case, and over one text   *)
(* that does not occur in u.                                               *)
(***************************************************************************)
GenTexts == {u \in Strings(MaxLen) : \A i \in 1..Len(u) : ~IsDigit(u[i])}

SlotTexts(u) ==
    LET subs == {SubSeq(u, i, j) : i \in 1..Len(u), j \in 1..Len(u)} \ {<<>>}
    IN  subs \cup {Lower(x) : x \in subs} \cup {<<"1", "m">>}

InitGen ==
    \E u \in GenTexts : \E v \in SlotTexts(u) :
        InitWith(1, 1, "gen",
                 [NoCall EXCEPT !.query = u, !.slot = StrSlot(v), !.col = "color",
                                !.how = "exact", !.slot_val = v], 1) /\ NoRequest

SpecGen == InitGen /\ [][MatchGeneralize]_vars

(***************************************************************************)
(* app.query_multi, the handler of POST /query.  Line 71:                  *)
(*   parts = [p.strip() for p in                                           *)
(*            re.split(r'\b(?:and|then|also)\b|[,;]', q, re.IGNORECASE)    *)
(*            if p.strip()]                                                *)
(* re.split scans left to right; at each position it tries the keywords   *)
(* in order, each between two word boundaries, and then the two            *)
(* characters; a match ends the current fragment and is skipped.           *)
(***************************************************************************)
Keywords == << <<"a", "n", "d">>, <<"t", "h", "e", "n">>, <<"a", "l", "s", "o">> >>

\* keyword k, case-insensitively, at position i, wherever it stands
KeywordAnywhere(s, i, k) ==
    /\ i + Len(k) - 1 <= Len(s)
    /\ Lower(SubSeq(s, i, i + Len(k) - 1)) = k

\* keyword k, case-insensitively, at position i between two word boundaries
KeywordAt(s, i, k) ==
    /\ i + Len(k) - 1 <= Len(s)
    /\ Lower(SubSeq(s, i, i + Len(k) - 1)) = k
    /\ i = 1 \/ ~IsWord(s[i - 1])
    /\ i + Len(k) - 1 = Len(s) \/ ~IsWord(s[i + Len(k)])

\* the last index of the separator that starts at i, or 0
SepEndAt(s, i) ==
    IF \E n \in 1..Len(Keywords) : KeywordAt(s, i, Keywords[n])
    THEN LET n == CHOOSE x \in 1..Len(Keywords) :
                      /\ KeywordAt(s, i, Keywords[x])
                      /\ \A y \in 1..(x - 1) : ~KeywordAt(s, i, Keywords[y])
         IN  i + Len(Keywords[n]) - 1
    ELSE IF s[i] \in {",", ";"} THEN i
    ELSE 0

RECURSIVE SplitFrom(_, _, _)
SplitFrom(s, i, cur) ==
    IF i > Len(s) THEN <<cur>>
    ELSE IF SepEndAt(s, i) # 0
         THEN <<cur>> \o SplitFrom(s, SepEndAt(s, i) + 1, <<>>)
    ELSE SplitFrom(s, i + 1, Append(cur, s[i]))

ReSplit(s) == SplitFrom(s, 1, <<>>)

NonEmpty(p) == p # <<>>
SplitClauses(q) ==
    SelectSeq([k \in 1..Len(ReSplit(q)) |-> Strip(ReSplit(q)[k])], NonEmpty)

\* the entries of lines 79-83 and 111-119; "result", the rows fetch_results
\* read from the database, is left out
\* an entry that reports the clause as a hit whatever its match gave
MissEntryAsHit(part) ==
    [query |-> part, hit |-> TRUE, message |-> "no template match found"]

MissEntry(part) ==
    [query |-> part, hit |-> FALSE, message |-> "no template match found"]
HitEntry(part, m) ==
    [query |-> part, hit |-> TRUE, template |-> m.template, score |-> m.score,
     column_matched |-> m.column, is_description_match |-> m.is_description_match]

\* lines 65-74
QueryStart ==
    /\ http.status = "received"
    /\ IF Strip(userInput) = <<>>
       THEN /\ http' = [http EXCEPT !.status = "400"]
            /\ UNCHANGED <<parts, part_i>>
       ELSE /\ parts' = SplitClauses(Strip(userInput))
            /\ part_i' = 1
            /\ http' = [http EXCEPT !.status = "running"]
    /\ all_responses' = <<>>
    /\ any_hit' = FALSE
    /\ UNCHANGED <<userInput, matched, fileVars, fieldVars, reloadVars, matchVars>>

\* line 77: the call of matcher.match_with_sbert(part)
QueryMatch ==
    /\ http.status = "running"
    /\ mpc = "idle"
    /\ part_i <= Len(parts)
    /\ mpc' = "codes"
    /\ call' = [NoCall EXCEPT !.query = parts[part_i], !.log0 = Len(missLog)]
    /\ calls' = calls + 1
    /\ UNCHANGED <<missLog, reqVars, fileVars, fieldVars, reloadVars>>

\* lines 78-119, after the call has returned or raised.  Nothing in
\* query_multi catches an exception: one raised by match_with_sbert or by
\* fetch_results ends the request, which Flask answers with status 500.
QueryRespond ==
    /\ http.status = "running"
    /\ mpc = "done"
    /\ mpc' = "idle"
    /\ \/ /\ call.outcome = "error"
          /\ http' = [status |-> "500", error |-> call.error]
          /\ UNCHANGED <<part_i, all_responses, any_hit, matched>>
       \/ /\ call.outcome = "miss"
          /\ all_responses' = Append(all_responses, MissEntry(parts[part_i]))
          /\ matched' = Append(matched, [query |-> call.query, outcome |-> "miss",
                                          result |-> NoResult])
          /\ part_i' = part_i + 1
          /\ UNCHANGED <<any_hit, http>>
       \/ /\ call.outcome = "hit"
          /\ any_hit' = TRUE
          /\ matched' = Append(matched, [query |-> call.query, outcome |-> "hit",
                                          result |-> call.result])
          /\ \/ /\ http' = [status |-> "500", error |-> "DatabaseError"]
                /\ UNCHANGED <<part_i, all_responses>>
             \/ /\ all_responses' =
                       Append(all_responses, HitEntry(parts[part_i], call.result))
                /\ part_i' = part_i + 1
                /\ http' = http
    /\ UNCHANGED <<userInput, parts, call, calls, missLog,
                   fileVars, fieldVars, reloadVars>>

\* lines 121-124
QueryReturn ==
    /\ http.status = "running"
    /\ mpc = "idle"
    /\ part_i > Len(parts)
    /\ http' = [http EXCEPT !.status = "200"]
    /\ UNCHANGED <<userInput, parts, part_i, all_responses, any_hit, matched,
                   fileVars, fieldVars, reloadVars, matchVars>>

QueryNext ==
    \/ QueryStart
    \/ QueryMatch
    \/ ExtractNext
    \/ MatchCheckSlot
    \/ MatchGeneralize
    \/ MatchIntent
    \/ MatchGate
    \/ MatchBind
    \/ MatchBuild
    \/ QueryRespond
    \/ QueryReturn

\* a request with userInput u has arrived at a matcher built from schema 1
\* and template set 1
Received(u) ==
    /\ InitWith(1, 1, "idle", NoCall, 0)
    /\ userInput = u
    /\ parts = <<>>
    /\ part_i = 0
    /\ all_responses = <<>>
    /\ any_hit = FALSE
    /\ matched = <<>>
    /\ http = [status |-> "received", error |-> "none"]

(***************************************************************************)
(* SpecMulti: one request to /query whose userInput is a list of up to     *)
(* MaxClauses clauses joined by commas, against a matcher that is never    *)
(* reloaded.                                                               *)
(***************************************************************************)
ClauseTexts == { <<"m">>, <<"1">> }

RECURSIVE JoinClauses(_)
JoinClauses(cs) ==
    IF Len(cs) = 1 THEN cs[1] ELSE cs[1] \o <<",">> \o JoinClauses(Tail(cs))

InitMulti ==
    \E n \in 1..MaxClauses : \E cs \in [1..n -> ClauseTexts] :
        Received(JoinClauses(cs))

SpecMulti == InitMulti /\ [][QueryNext]_vars

(***************************************************************************)
(* SpecSplit: the clause splitter as a function of the utterance.  The     *)
(* utterance is a concatenation of up to MaxPieces words and separators,   *)
(* or the example of the specification.                                    *)
(***************************************************************************)
Pieces ==
    { <<"x">>, <<" ">>, <<",">>, <<";">>, <<"a", "n", "d">>,
      <<" ", "a", "n", "d", " ">>, <<"T", "h", "e", "n">>, <<"a", "l", "s", "o">> }

RECURSIVE Concat(_)
Concat(ps) == IF ps = <<>> THEN <<>> ELSE Head(ps) \o Concat(Tail(ps))

\* "show price of A and stock of B"
Example ==
    <<"s", "h", "o", "w", " ", "p", "r", "i", "c", "e", " ", "o", "f", " ", "A", " ",
      "a", "n", "d", " ", "s", "t", "o", "c", "k", " ", "o", "f", " ", "B">>

InitSplit ==
    \/ \E n \in 0..MaxPieces : \E ps \in [1..n -> Pieces] : Received(Concat(ps))
    \/ Received(Example)

SpecSplit == InitSplit /\ [][QueryStart]_vars

(***************************************************************************)
(* Vocabulary of the properties                                            *)
(***************************************************************************)
\* the call has returned or raised
Returned == mpc = "done"

\* exactly one reload has run, all its build steps succeeded and it has
\* returned: pre is the snapshot before it and Fields the snapshot after it
OneReloadCompleted == rgen = 1 /\ rstatus.ended = "complete" /\ rpc = "idle"

\* snapshot f holds what observation o saw
Agrees(o, f) ==
    CASE o[1] = "schema" -> f.schema = o[2]
      [] o[1] = "cache" -> (o[2] \in DOMAIN f.cache) = o[3]
      [] o[1] = "desc" -> (o[2] \in DOMAIN f.desc) = o[3]
      [] o[1] = "intent_idx" -> f.intent_idx = o[2]
      [] o[1] = "sql_templates" -> f.sql_templates = o[2]
      [] OTHER -> f.templates = o[2]

SeenIn(f) == \A o \in call.obs : Agrees(o, f)

CodeIdColumns(sch) == sch.code_columns \o sch.id_columns

\* the utterance has a substring that matches a recognised pattern of column c
PatternOf(sch, c, q) ==
    {PatternHit(sch.patterns[c][k], q) : k \in 1..Len(sch.patterns[c])} \ {<<>>}

\* the entries of column c's cache whose value occurs, case-insensitively,
\* in the utterance
ValuesIn(c, q) ==
    IF c \in DOMAIN cache
    THEN {i \in 1..Len(cache[c]) : Contains(Lower(q), Lower(cache[c][i][2]))}
    ELSE {}

\* extract_slot has returned (slot, col, is_desc) for the utterance
Extracted == mpc = "slot"

(***************************************************************************)
(* C1.  Reload atomicity: everything a match call saw of the matcher's     *)
(* fields is as the pre-reload snapshot has it, or everything is as the    *)
(* post-reload snapshot has it.                                            *)
(* Stated for a call that overlaps the one reload of the run, a reload     *)
(* that completed without error.                                           *)
(***************************************************************************)
C1_ReloadAtomicity ==
    (Returned /\ OneReloadCompleted) => (SeenIn(pre) \/ SeenIn(Fields))

(***************************************************************************)
(* C2.  After a reload whose build failed, every field of the matcher has  *)
(* the content it had when the reload began.                               *)
(***************************************************************************)
C2_FailedReloadLeavesState ==
    rstatus.ended = "except" => Fields = pre

(***************************************************************************)
(* C3.  A reload that failed on an unreadable or malformed schema or       *)
(* template file ends with an error outcome at its caller.                 *)
(***************************************************************************)
C3_FailureSurfaced ==
    (rstatus.ended = "except" /\ rstatus.cause = "ConfigurationError")
        => rstatus.caller = "raised"

(***************************************************************************)
(* C4.  A call that passed the intent gate never finds the searched index  *)
(* out of range, and the template and SQL skeleton it returns are those of *)
(* the entry at that index of the template set whose index it searched.    *)
(* Stated for runs whose one reload completed without error.               *)
(***************************************************************************)
C4_OneSnapshotPerCall ==
    (Returned /\ OneReloadCompleted /\ call.searched # 0
              /\ call.intent_score >= INTENT_THRESHOLD)
        => /\ call.error # "IndexError"
           /\ call.outcome = "hit" =>
                /\ InRange(TemplateStore(call.searched), call.idx)
                /\ call.result.template =
                       Item(TemplateStore(call.searched), call.idx).template
                /\ call.result.sql =
                       BindColumn(Item(TemplateStore(call.searched), call.idx).sql,
                                  call.col)

(***************************************************************************)
(* C5.  Cascade precedence: when the utterance matches a pattern of some   *)
(* id/code column and contains a cached value of a categorical column,     *)
(* extract_slot returns an id/code column with a substring that matches    *)
(* one of that column's patterns.                                          *)
(***************************************************************************)
C5_PatternBeatsCategorical ==
    LET sch == SchemaStore(schema)
    IN  (/\ Extracted
         /\ \E b \in SeqRange(CodeIdColumns(sch)) : PatternOf(sch, b, call.query) # {}
         /\ \E c \in SeqRange(sch.categorical_columns) : ValuesIn(c, call.query) # {})
        => /\ call.col \in SeqRange(CodeIdColumns(sch))
           /\ call.slot.kind = "str"
           /\ call.slot.s \in PatternOf(sch, call.col, call.query)

(***************************************************************************)
(* C6.  A pattern hit on an id/code column B wins over the cached exact    *)
(* value of an id/code column A that comes earlier in the iteration order. *)
(***************************************************************************)
C6_PatternBeatsEarlierExact ==
    LET sch == SchemaStore(schema)
        cols == CodeIdColumns(sch)
    IN  Extracted =>
          \A a \in 1..Len(cols), b \in 1..Len(cols) :
             (/\ a < b
              /\ PatternOf(sch, cols[b], call.query) # {}
              /\ ValuesIn(cols[a], call.query) # {})
             => /\ call.how = "pattern"
                /\ call.slot.s \in PatternOf(sch, call.col, call.query)

(***************************************************************************)
(* C7 as stated.  Whenever the utterance contains a cached value of a      *)
(* categorical column C, extract_slot returns C and the stored form of     *)
(* that value.                                                             *)
(***************************************************************************)
C7_AnyContainedValueReturned ==
    LET sch == SchemaStore(schema)
    IN  Extracted =>
          \A c \in SeqRange(sch.categorical_columns) :
             \A i \in ValuesIn(c, call.query) :
                /\ call.col = c
                /\ call.slot = StrSlot(cache[c][i][2])

\* nothing that comes before entry i of categorical column number k in the
\* cascade hits: no pattern and no cached value of an id/code column, no
\* cached value of an earlier categorical column, no earlier entry of the
\* column's own dict
FirstInCascade(sch, k, i) ==
    /\ \A b \in SeqRange(CodeIdColumns(sch)) :
          PatternOf(sch, b, call.query) = {} /\ ValuesIn(b, call.query) = {}
    /\ \A j \in 1..(k - 1) : ValuesIn(sch.categorical_columns[j], call.query) = {}
    /\ \A j \in 1..(i - 1) : j \notin ValuesIn(sch.categorical_columns[k], call.query)

(***************************************************************************)
(* C7, amended.  When the utterance contains a cached value of categorical *)
(* column C and nothing earlier in the cascade hits (no id/code pattern or *)
(* cached id/code value, no value of an earlier categorical column, no     *)
(* earlier entry of C's dict), extract_slot returns C with the stored,     *)
(* original-cased form of that value, and not as a description match.      *)
(***************************************************************************)
C7_FirstContainedValueReturned ==
    LET sch == SchemaStore(schema)
    IN  Extracted =>
          \A k \in 1..Len(sch.categorical_columns) :
             \A i \in ValuesIn(sch.categorical_columns[k], call.query) :
                FirstInCascade(sch, k, i) =>
                   /\ call.col = sch.categorical_columns[k]
                   /\ call.slot = StrSlot(cache[sch.categorical_columns[k]][i][2])
                   /\ ~call.is_desc

\* a categorical value was returned in a casing other than its lower case
C7_Witness ==
    LET sch == SchemaStore(schema)
    IN  /\ Extracted
        /\ \E k \in 1..Len(sch.categorical_columns) :
              \E i \in ValuesIn(sch.categorical_columns[k], call.query) :
                 /\ FirstInCascade(sch, k, i)
                 /\ call.col = sch.categorical_columns[k]
                 /\ call.slot.s # Lower(call.slot.s)

\* the start positions of the case-insensitive occurrences of v in s
OccStarts(s, v) ==
    {i \in 1..(Len(s) - Len(v) + 1) :
        Lower(SubSeq(s, i, i + Len(v) - 1)) = Lower(v)}

\* the number of non-overlapping occurrences of v in s
Disjoint(S, n) == \A i \in S, j \in S : i # j => (i - j >= n \/ j - i >= n)
NonOverlapping(s, v) ==
    LET sets == {S \in SUBSET OccStarts(s, v) : Disjoint(S, Len(v))}
    IN  Cardinality(CHOOSE S \in sets :
                       \A T \in sets : Cardinality(T) <= Cardinality(S))

\* the generalisation step has run
Generalized == mpc = "intent"

(***************************************************************************)
(* C8 as stated.  For non-empty v the generalised string has no            *)
(* case-insensitive occurrence of v left, and the number of placeholders   *)
(* inserted is the number of non-overlapping occurrences of v in u.        *)
(***************************************************************************)
C8_NoOccurrenceLeft ==
    (Generalized /\ call.slot_val # <<>>) =>
        /\ OccStarts(call.gen_q, call.slot_val) = {}
        /\ Cardinality(call.ph_at) = NonOverlapping(call.query, call.slot_val)

(***************************************************************************)
(* C8, amended.  For non-empty v every case-insensitive occurrence of v    *)
(* left in the generalised string overlaps an inserted placeholder (no     *)
(* occurrence is left in the text copied from u), and the number of        *)
(* placeholders inserted is the number of non-overlapping occurrences of v *)
(* in u.                                                                   *)
(***************************************************************************)
C8_NoOccurrenceLeftOutsidePlaceholders ==
    (Generalized /\ call.slot_val # <<>>) =>
        /\ \A i \in OccStarts(call.gen_q, call.slot_val) :
              \E p \in call.ph_at :
                 i < p + Len(PHChars) /\ p < i + Len(call.slot_val)
        /\ Cardinality(call.ph_at) = NonOverlapping(call.query, call.slot_val)

\* a repeated mention was replaced twice, and the placeholder text itself
\* contains the slot value
C8_Witness ==
    /\ Generalized
    /\ call.slot_val # <<>>
    /\ Cardinality(call.ph_at) >= 2
    /\ OccStarts(call.gen_q, call.slot_val) # {}

(***************************************************************************)
(* C9.  A call that ends in a miss has appended exactly one event, its own *)
(* utterance, to the miss log; a call that returns a result has appended   *)
(* none; no call appends two.                                              *)
(***************************************************************************)
C9_OneEventPerMiss ==
    /\ Len(missLog) <= call.log0 + 1
    /\ Returned =>
          /\ call.outcome = "miss" =>
                /\ Len(missLog) = call.log0 + 1
                /\ missLog[Len(missLog)].query = call.query
          /\ call.outcome = "hit" => Len(missLog) = call.log0

\* a call missed on the intent threshold and its event is in the log
C9_Witness ==
    /\ Returned
    /\ call.outcome = "miss"
    /\ Len(missLog) = call.log0 + 1
    /\ missLog[Len(missLog)].has_score

(***************************************************************************)
(* C10.  When the append to the miss log raises, the match call still ends *)
(* in its miss outcome.                                                    *)
(***************************************************************************)
C10_SinkFailureIsMiss ==
    (Returned /\ call.sink_raised) => call.outcome = "miss"

\* the request has been answered
Answered == http.status \in {"200", "400", "500"}

(***************************************************************************)
(* C11.  A request of several clauses in which the match of one clause     *)
(* raised an encoder failure is still answered with status 200 and holds   *)
(* one entry for every clause.                                             *)
(***************************************************************************)
C11_EncoderFailureIsClauseMiss ==
    (/\ Answered
     /\ Len(parts) > 1
     /\ http.error = "EncoderFailure" \/ call.error = "EncoderFailure")
        => /\ http.status = "200"
           /\ Len(all_responses) = Len(parts)

\* s[i..j] is a separator: a comma or a semicolon, or one of the words and,
\* then, also in any casing with no word character next to it on either side
IsSeparator(s, i, j) ==
    \/ i = j /\ s[i] \in {",", ";"}
    \/ /\ Lower(SubSeq(s, i, j)) \in
              { <<"a", "n", "d">>, <<"t", "h", "e", "n">>, <<"a", "l", "s", "o">> }
       /\ i > 1 => ~IsWord(s[i - 1])
       /\ j < Len(s) => ~IsWord(s[j + 1])

\* a separator has one, three or four characters
SeparatorEnds(s, i) == {j \in {i, i + 2, i + 3} : j <= Len(s)}

HasSeparator(s) ==
    \E i \in 1..Len(s) : \E j \in SeparatorEnds(s, i) : IsSeparator(s, i, j)

\* position p of s lies inside a separator
InSeparator(s, p) ==
    \E i \in 1..p : \E j \in SeparatorEnds(s, i) : j >= p /\ IsSeparator(s, i, j)

\* the fragments of s between separators, left to right, trimmed, the empty
\* ones dropped
RECURSIVE FragmentsFrom(_, _, _)
FragmentsFrom(s, a, b) ==
    LET piece == Strip(SubSeq(s, a, b - 1))
        here == IF piece = <<>> THEN <<>> ELSE <<piece>>
    IN  IF b > Len(s) THEN here
        ELSE IF InSeparator(s, b) THEN here \o FragmentsFrom(s, b + 1, b + 1)
        ELSE FragmentsFrom(s, a, b + 1)

Fragments(s) == FragmentsFrom(s, 1, 1)

\* query_multi has split the utterance
Splitted == http.status = "running" /\ part_i = 1 /\ mpc = "idle" /\ matched = <<>>

(***************************************************************************)
(* C12.  The clauses of an utterance are its fragments between separators  *)
(* in left-to-right order; every clause is trimmed and non-empty and holds *)
(* no separator; "show price of A and stock of B" gives "show price of A"  *)
(* and "stock of B".                                                       *)
(***************************************************************************)
C12_ClauseSplitter ==
    /\ Splitted =>
          /\ parts = Fragments(Strip(userInput))
          /\ \A k \in 1..Len(parts) :
                /\ parts[k] # <<>>
                /\ parts[k][1] # " " /\ parts[k][Len(parts[k])] # " "
                /\ ~HasSeparator(parts[k])
    /\ (Splitted /\ userInput = Example) =>
          parts = << <<"s", "h", "o", "w", " ", "p", "r", "i", "c", "e", " ", "o", "f", " ", "A">>,
                     <<"s", "t", "o", "c", "k", " ", "o", "f", " ", "B">> >>

\* "x and x" was split into its two clauses
C12_Witness ==
    /\ Splitted
    /\ userInput = <<"x", " ", "a", "n", "d", " ", "x">>
    /\ parts = << <<"x">>, <<"x">> >>

Searched == Returned /\ call.searched # 0

(***************************************************************************)
(* C14.  Intent threshold gate: a call returns a result only with an       *)
(* intent score at or above the threshold; with a score below it the call  *)
(* returns a miss whose recorded event carries that score; with a score    *)
(* equal to the threshold, and no reload in the way, the call is a hit.    *)
(***************************************************************************)
C14_IntentGate ==
    Searched =>
        /\ call.outcome = "hit" => call.intent_score >= INTENT_THRESHOLD
        /\ call.intent_score < INTENT_THRESHOLD =>
              /\ call.outcome = "miss"
              /\ Len(missLog) = call.log0 + 1
              /\ missLog[Len(missLog)].has_score
              /\ missLog[Len(missLog)].intent_score = call.intent_score
        /\ (call.intent_score = INTENT_THRESHOLD /\ rgen = 0) => call.outcome = "hit"

(***************************************************************************)
(* C15.  The score field of every result a call returns is the intent      *)
(* score that passed the gate, for description matches as for pattern and  *)
(* exact matches.                                                          *)
(***************************************************************************)
C15_ResultCarriesIntentScore ==
    (Returned /\ call.outcome = "hit") =>
        call.result.score = Float(call.intent_score)

\* the semantic fallback of the call compared the utterance with the
\* description index of at least one text column
SemanticAttempted == DOMAIN call.near # {}

(***************************************************************************)
(* C16.  When a call finds no slot after the semantic fallback was         *)
(* attempted, the miss event it records carries a score besides the        *)
(* utterance.                                                              *)
(***************************************************************************)
C16_NoSlotMissCarriesScore ==
    (Returned /\ call.outcome = "miss" /\ Falsy(call.slot) /\ SemanticAttempted) =>
        /\ Len(missLog) = call.log0 + 1
        /\ missLog[Len(missLog)].query = call.query
        /\ missLog[Len(missLog)].has_score

\* a reload has started and has not returned
Reloading == rpc # "idle"

(***************************************************************************)
(* C17.  Reload is serialized: at any time at most one reload has started  *)
(* and not yet returned, whatever signals arrive meanwhile.                *)
(***************************************************************************)
C17_ReloadSerialized ==
    /\ rgen - rstatus.done <= 1
    /\ Reloading = (rgen = rstatus.done + 1)

\* a signal for a watched file waits in the queue while a reload is running
C17_Witness ==
    /\ Reloading
    /\ rgen = rstatus.done + 1
    /\ events # <<>>
    /\ Watched(Head(events))

\* the last reload built everything and has returned
ReloadSucceeded == rstatus.ended = "complete" /\ rpc = "idle"

(***************************************************************************)
(* C18.  After a reload that completed, the categorical cache has entries  *)
(* exactly for the categorical, code and id columns of the schema now      *)
(* loaded, and the description index exactly for its text columns that     *)
(* have values.                                                            *)
(***************************************************************************)
C18_WholesaleRebuild ==
    ReloadSucceeded =>
        /\ DOMAIN cache = SeqRange(CachedColumns(SchemaStore(schema)))
        /\ DOMAIN desc = {c \in SeqRange(SchemaStore(schema).text_columns) :
                             Table[c] # <<>>}

\* the signals for a watched file that wait in the observer's queue
Pending == Cardinality({i \in 1..Len(events) : Watched(events[i])})

\* the fields a match call reads are what a build from the loaded schema and
\* templates gives
FreshlyBuilt ==
    LET built == Constructed(schema, templates)
    IN  /\ sql_templates = templates
        /\ intent_idx = built.intent_idx
        /\ desc = built.desc
        /\ \A c \in DOMAIN built.cache : c \in DOMAIN cache /\ cache[c] = built.cache[c]

(***************************************************************************)
(* C19.  Reload lifecycle: under fair scheduling of the observer thread    *)
(* every signal for the schema or template file leads to a reload that     *)
(* returns, the k-th signal to the k-th reload; after a reload that        *)
(* completed, the fields a match call reads are those of a build from the  *)
(* loaded files, and they are those of the files as they are now when no   *)
(* signal is waiting.                                                      *)
(***************************************************************************)
C19_ReloadLifecycle ==
    /\ \A k \in 1..MaxSignals : (rgen + Pending >= k) ~> (rstatus.done >= k)
    /\ [](ReloadSucceeded => FreshlyBuilt)
    /\ [](ReloadSucceeded /\ events = <<>> =>
             schema = schemaFile /\ templates = templateFile)

\* a second signal led to a second reload, which completed on new content
C19_Witness ==
    /\ ReloadSucceeded
    /\ rgen = 2
    /\ rstatus.done = 2
    /\ schema = 2
    /\ FreshlyBuilt

\* extract_slot has returned from its semantic fallback: no pattern and no
\* cached value had hit
FellBack == Extracted /\ call.how \in {"semantic", "none"}

\* the positions, in the schema's text columns, of the columns whose nearest
\* value has a score above the slot threshold
Qualifying ==
    LET cols == SchemaStore(schema).text_columns
    IN  {k \in 1..Len(cols) :
            cols[k] \in DOMAIN desc /\ call.near[cols[k]].score > DESC_SLOT_THRESHOLD}

SkeletonRead ==
    LET o == CHOOSE x \in call.obs : x[1] = "sql_templates"
    IN  Item(SqlTemplatesOf(o[2]), call.idx)

(***************************************************************************)
(* C21.  Column binding: in every result a call returns, the SQL is the    *)
(* skeleton read from the SQL templates with every occurrence of the       *)
(* column placeholder replaced by the column that yielded the slot, which  *)
(* is the column the same result reports; no placeholder is left and the   *)
(* value marker ? stands where the skeleton has it.                        *)
(***************************************************************************)
C21_ColumnBinding ==
    (Returned /\ call.outcome = "hit") =>
        LET r == call.result
            sk == SkeletonRead
        IN  /\ r.column = call.col
            /\ r.column # "None"
            /\ Len(r.sql) = Len(sk)
            /\ \A k \in 1..Len(sk) :
                  /\ r.sql[k] # "{COL}"
                  /\ sk[k] = "{COL}" => r.sql[k] = r.column
                  /\ sk[k] # "{COL}" => r.sql[k] = sk[k]
            /\ \E k \in 1..Len(sk) : sk[k] = "?" /\ r.sql[k] = "?"

\* a result whose skeleton named the placeholder twice
C21_Witness ==
    /\ Returned
    /\ call.outcome = "hit"
    /\ Cardinality({k \in 1..Len(SkeletonRead) : SkeletonRead[k] = "{COL}"}) = 2
    /\ Cardinality({k \in 1..Len(call.result.sql) :
                       call.result.sql[k] = call.result.column}) = 2

\* q[i..j] is a whole-word token of two or more letters, a hyphen and one or
\* more digits
IsCodeToken(q, i, j) ==
    /\ \E h \in (i + 2)..(j - 1) :
          /\ q[h] = "-"
          /\ \A k \in i..(h - 1) : IsLetter(q[k])
          /\ \A k \in (h + 1)..j : IsDigit(q[k])
    /\ i = 1 \/ ~IsWord(q[i - 1])
    /\ j = Len(q) \/ ~IsWord(q[j + 1])

CodeTokens(q) == {t \in (1..Len(q)) \X (1..Len(q)) : IsCodeToken(q, t[1], t[2])}

\* the first such token of q, as it is written in q
FirstCodeToken(q) ==
    LET t == CHOOSE x \in CodeTokens(q) : \A y \in CodeTokens(q) : x[1] <= y[1]
    IN  SubSeq(q, t[1], t[2])

\* the schema has the code column sku with the pattern tag CODE-NUMBER
HasSkuPattern(sch) ==
    "sku" \in SeqRange(sch.code_columns) /\ sch.patterns["sku"] = <<"CODE-NUMBER">>

(***************************************************************************)
(* C22.  With a schema whose code column sku has the pattern CODE-NUMBER,  *)
(* every utterance that contains a whole-word token of two or more         *)
(* letters, a hyphen and one or more digits gives column sku, the first    *)
(* such token exactly as written as the slot, and no description match; a  *)
(* pattern hit is never a description match, and the description flag is   *)
(* set exactly when the slot came from the semantic fallback.              *)
(***************************************************************************)
C22_PatternHitReported ==
    Extracted =>
        /\ (HasSkuPattern(SchemaStore(schema)) /\ CodeTokens(call.query) # {}) =>
              /\ call.col = "sku"
              /\ call.slot = StrSlot(FirstCodeToken(call.query))
              /\ ~call.is_desc
        /\ call.how = "pattern" =>
              /\ ~call.is_desc
              /\ call.slot.kind = "str"
              /\ Contains(call.query, call.slot.s)
        /\ call.is_desc = (call.how = "semantic")

\* the call is past the slot test of line 172
PastSlotTest == mpc \in {"intent", "gate", "bind", "build"}

(***************************************************************************)
(* C23.  Every result a call returns has a non-empty slot: a non-empty     *)
(* text for a pattern or exact match, a non-empty list of candidates for a *)
(* semantic match; the text that is generalised is the slot text itself    *)
(* or, for a semantic match, the value of the first candidate.             *)
(***************************************************************************)
C23_SlotNonEmpty ==
    /\ (Returned /\ call.outcome = "hit") =>
          LET r == call.result
          IN  /\ r.slot = call.slot
              /\ r.slot.kind \in {"str", "list"}
              /\ r.slot.kind = "str" =>
                    /\ r.slot.s # <<>>
                    /\ ~r.is_description_match
                    /\ call.slot_val = r.slot.s
              /\ r.slot.kind = "list" =>
                    /\ r.slot.cands # <<>>
                    /\ r.is_description_match
                    /\ call.slot_val = r.slot.cands[1][1]
              /\ call.gen_q = Flatten(SubTokens(call.query, call.slot_val))
    /\ PastSlotTest =>
          /\ call.slot_val =
                IF call.is_desc THEN call.slot.cands[1][1] ELSE call.slot.s
          /\ call.gen_q = Flatten(SubTokens(call.query, call.slot_val))

\* a result of a semantic match, generalised on its first candidate
C23_Witness ==
    /\ Returned
    /\ call.outcome = "hit"
    /\ call.result.slot.kind = "list"
    /\ call.slot_val = call.result.slot.cands[1][1]
    /\ call.gen_q = Flatten(SubTokens(call.query, call.slot_val))

\* the call ended on the no-slot exit of lines 172-174
NoSlotMiss == Returned /\ call.searched = 0 /\ (call.outcome = "miss" \/ call.sink_raised)

(***************************************************************************)
(* C24.  Whenever extract_slot returned a column, the call goes on to      *)
(* generalisation and intent resolution and does not end on the no-slot    *)
(* miss exit; in particular not when the value found is an empty string.   *)
(* Stated for the utterances that are not empty.                           *)
(***************************************************************************)
C24_HitIsNotNoSlotMiss ==
    (Returned /\ call.query # <<>> /\ call.col # "None") => ~NoSlotMiss

\* a step of the worker thread: the call moves on, or the miss log grows
MatchStepTaken == matchVars' # matchVars

\* the miss log is as it was, or has one more event, for the call's utterance
SinkAppendOnly ==
    \/ missLog' = missLog
    \/ /\ Len(missLog') = Len(missLog) + 1
       /\ SubSeq(missLog', 1, Len(missLog)) = missLog
       /\ missLog'[Len(missLog')].query = call'.query

(***************************************************************************)
(* C25.  Matching is read-only: no step of a match call, whatever the      *)
(* call's outcome, changes the schema, the templates, the SQL skeletons,   *)
(* the intent index, the description index or the categorical cache, nor   *)
(* the files and the state of the reload; its only effect outside the call *)
(* is at most one event appended to the miss log.                          *)
(***************************************************************************)
C25_MatchingReadOnly ==
    [][MatchStepTaken =>
          /\ UNCHANGED fieldVars
          /\ UNCHANGED fileVars
          /\ UNCHANGED reloadVars
          /\ SinkAppendOnly]_vars

\* a call has returned a miss, its event is in the log and the matcher is as
\* it was constructed
C25_Witness ==
    /\ Returned
    /\ call.outcome = "miss"
    /\ Len(missLog) = call.log0 + 1
    /\ rgen = 0
    /\ Fields = Constructed(1, 1)

\* the observer thread takes the next event from its queue and runs the
\* handler on it
Dispatched == events # <<>> /\ events' = Tail(events)

\* the path ends with the name of the schema file or of the template file
EndsWithWatchedName(path) ==
    EndsWith(path, SchemaName) \/ EndsWith(path, TemplateName)

\* a reload begins
ReloadStarted == rgen' = rgen + 1 /\ rpc = "idle" /\ rpc' = "load_schema"

(***************************************************************************)
(* C26.  The watcher calls reload only for modification events whose path  *)
(* ends with schema.json or templates.json, once for each such event; the  *)
(* handler of an event on any other path leaves the matcher's fields and   *)
(* the state of the reload as they are and starts no reload.               *)
(***************************************************************************)
C26_WatchedPathsOnly ==
    [][/\ (rgen' # rgen \/ (rpc = "idle" /\ rpc' # "idle")) =>
             /\ Dispatched
             /\ EndsWithWatchedName(Head(events))
             /\ ReloadStarted
       /\ Dispatched =>
             IF EndsWithWatchedName(Head(events))
             THEN ReloadStarted
             ELSE UNCHANGED fieldVars /\ UNCHANGED reloadVars]_vars

\* two files other than the schema and template files were modified: the
\* event of one of them, ./old_schema.json, started a reload, which has
\* returned, and the event of the other started none
C26_Witness ==
    /\ edits = 2
    /\ events = <<>>
    /\ schemaFile = 1
    /\ templateFile = 1
    /\ rgen = 1
    /\ rstatus.done = 1
    /\ rpc = "idle"

=============================================================================
